---------------------------- MODULE Spec2Model ----------------------------
(* The HTTP gateway of src/main.rs: the handlers health_check, get_balance *)
(* and get_airdrop, each run as one task of the tokio runtime, with the    *)
(* adapter (RpcClient) as a nondeterministic environment.                  *)
EXTENDS Integers, Sequences, FiniteSets, Bags, TLC

(* ------------------------------ bounds --------------------------------- *)
\* Number of requests the server is given in one run.
NumReq == 2
\* Number of worker threads of the runtime.
NumWorkers == 1

(* ------------------------ u64 arithmetic ------------------------------- *)
\* A u64 is its 8 bytes, least significant first.
Pow256(k) == CASE k = 0 -> 1 [] k = 1 -> 256 [] k = 2 -> 65536 [] k = 3 -> 16777216

U64(n) == [i \in 1..8 |-> IF i > 4 THEN 0 ELSE (n \div Pow256(i - 1)) % 256]

RECURSIVE SumCol(_, _, _, _)
SumCol(a, b, k, i) ==
    IF i > 8 THEN 0
    ELSE (IF (k + 1 - i) \in 1..8 THEN a[i] * b[k + 1 - i] ELSE 0)
         + SumCol(a, b, k, i + 1)

\* The carry into byte k of the product.
RECURSIVE CarryInto(_, _, _)
CarryInto(a, b, k) ==
    IF k = 1 THEN 0
    ELSE (SumCol(a, b, k - 1, 1) + CarryInto(a, b, k - 1)) \div 256

\* The mathematical product of two u64, 16 bytes.
FullMul(a, b) ==
    [k \in 1..16 |-> (SumCol(a, b, k, 1) + CarryInto(a, b, k)) % 256]

\* a * b in u64 with overflow checks off: the low 64 bits.
WrappingMul(a, b) == SubSeq(FullMul(a, b), 1, 8)

\* a * b does not fit in a u64.
MulOverflows(a, b) == \E i \in 9..16 : FullMul(a, b)[i] # 0

RECURSIVE GtFrom(_, _, _)
GtFrom(a, b, i) ==
    IF i = 0 THEN FALSE
    ELSE IF a[i] # b[i] THEN a[i] > b[i]
    ELSE GtFrom(a, b, i - 1)

\* a > b on u64.
U64Gt(a, b) == GtFrom(a, b, 8)

LAMPORTS_PER_SOL == U64(1000000000)

\* 2 * LAMPORTS_PER_SOL, the ceiling of line 138.
MaxLamports == WrappingMul(U64(2), LAMPORTS_PER_SOL)

\* lamports_amount > 2 * LAMPORTS_PER_SOL
AmountTooLargeGe(lamports) == ~U64Gt(MaxLamports, lamports)

AmountTooLarge(lamports) == U64Gt(lamports, MaxLamports)

(* ------------------------------ inputs --------------------------------- *)
Routes == {"/health", "/get_balance", "/get_airdrop"}

ValidWallets == {"11111111111111111111111111111111"}
Wallets == ValidWallets \cup {"not-a-valid-address"}

\* Pubkey::from_str: Ok(key) for a well-formed address, Err otherwise.
PubkeyFromStr(wallet) ==
    IF wallet \in ValidWallets
    THEN [ok |-> TRUE, key |-> <<"Pubkey", wallet>>]
    ELSE [ok |-> FALSE, key |-> <<>>]

\* 2^55: 2^55 * 10^9 = 5^9 * 2^64.
Sol2Pow55 == <<0, 0, 0, 0, 0, 0, 128, 0>>

Sols == {U64(0), U64(1), U64(2), U64(3), Sol2Pow55}

\* What the adapter can answer: a balance, or an error.
Balances == {500000000, 1500000000}
RpcErrors == {"rpc error"}
Signatures == {"sig"}

Payloads(route) ==
    CASE route = "/health" -> {<<>>}
      [] route = "/get_balance" -> {[wallet |-> w] : w \in Wallets}
      [] route = "/get_airdrop" -> {[wallet |-> w, sol |-> s] : w \in Wallets, s \in Sols}

(* ------------------------------- state --------------------------------- *)
\* No state is shared between requests and a request has no identity beyond
\* its own data, so the requests of a run are a bag of tasks. A task is
\*   route            the route it arrived on
\*   payload          its JSON body
\*   pc               where its handler is
\*   old_balance      get_airdrop's local (-1: not yet set)
\*   lamports_amount  get_airdrop's local (<<>>: not yet set)
\*   calls            the adapter calls it has made, in order
\*   steps            the steps of its handler that have run, in order
\*   response         the response sent, status 0 while there is none
VARIABLES
    overflow_checks,  \* the build's overflow-checks setting (debug: TRUE)
    idle_workers,     \* worker threads of the runtime that poll no task
    tasks

vars == <<overflow_checks, idle_workers, tasks>>

Tasks == BagToSet(tasks)

NoResponse == [status |-> 0, error |-> <<>>, body |-> <<>>]

ErrorResponse(status, error) == [status |-> status, error |-> error, body |-> <<>>]

OkResponse(body) == [status |-> 200, error |-> <<>>, body |-> body]

GetBalanceCall(key, result) ==
    [op |-> "get_balance", pubkey |-> key, lamports |-> <<>>, result |-> result]

RequestAirdropCall(key, lamports, result) ==
    [op |-> "request_airdrop", pubkey |-> key, lamports |-> lamports, result |-> result]

\* Results of the adapter: Ok(value) or Err(e).
Ok(v) == [ok |-> TRUE, value |-> v]
Err(e) == [ok |-> FALSE, value |-> e]

BalanceResults == {Ok(b) : b \in Balances} \cup {Err(e) : e \in RpcErrors}
AirdropResults == {Ok(s) : s \in Signatures} \cup {Err(e) : e \in RpcErrors}

NewTask(rt, p) ==
    [route |-> rt, payload |-> p, pc |-> "queued", old_balance |-> -1,
     lamports_amount |-> <<>>, calls |-> <<>>, steps |-> <<>>,
     response |-> NoResponse]

\* A task is polled by one worker thread, which it occupies from the start
\* of the poll until the handler returns, panics or awaits.
WorkerFree == idle_workers > 0

\* Task t becomes t2. Poll: a free worker starts to poll it and it is still
\* executing at the end of the step; Yield: it was executing and gives its
\* worker back (it returned, panicked or awaits); Same: its hold on a worker
\* is the same before and after the step.
Poll == "poll"
Yield == "yield"
Same == "same"

Becomes(t, t2, worker) ==
    /\ tasks' = (tasks (-) SetToBag({t})) (+) SetToBag({t2})
    /\ idle_workers' = CASE worker = Poll -> idle_workers - 1
                         [] worker = Yield -> idle_workers + 1
                         [] worker = Same -> idle_workers
    /\ UNCHANGED overflow_checks

Init ==
    /\ overflow_checks \in BOOLEAN
    /\ idle_workers = NumWorkers
    /\ tasks = EmptyBag

(* ------------------------------ actions -------------------------------- *)
\* axum::serve accepts a request, extracts its JSON body and spawns the
\* handler of its route as a task.
Accept ==
    /\ BagCardinality(tasks) < NumReq
    /\ \E rt \in Routes : \E p \in Payloads(rt) :
         tasks' = tasks (+) SetToBag({NewTask(rt, p)})
    /\ UNCHANGED <<overflow_checks, idle_workers>>

health_check ==
    \E t \in Tasks :
    /\ t.pc = "queued" /\ t.route = "/health"
    /\ WorkerFree
    /\ Becomes(t, [t EXCEPT !.pc = "done",
                            !.response = OkResponse([status |-> "healthy"])], Same)

Key(t) == PubkeyFromStr(t.payload.wallet).key

InvalidWallet(t) ==
    [t EXCEPT !.pc = "done",
              !.steps = Append(@, "validate"),
              !.response = ErrorResponse(400, <<"Invalid wallet address">>)]

\* get_balance, lines 72-85: parse the wallet.
get_balance_parse ==
    \E t \in Tasks :
    /\ t.pc = "queued" /\ t.route = "/get_balance"
    /\ WorkerFree
    /\ IF PubkeyFromStr(t.payload.wallet).ok
       THEN Becomes(t, [t EXCEPT !.pc = "read_balance",
                                 !.steps = Append(@, "validate")], Poll)
       ELSE Becomes(t, InvalidWallet(t), Same)

\* get_balance, lines 87-103: one balance read, then the response.
get_balance_read ==
    \E t \in Tasks :
    /\ t.pc = "read_balance"
    /\ \E res \in BalanceResults :
         Becomes(t, [t EXCEPT
             !.pc = "done",
             !.steps = Append(@, "balance"),
             !.calls = Append(@, GetBalanceCall(Key(t), res)),
             !.response =
                 IF res.ok
                 THEN OkResponse([wallet |-> t.payload.wallet,
                                  balance_lamports |-> res.value])
                 ELSE ErrorResponse(500, <<"Failed to get balance: ", res.value>>)],
             Yield)

\* Variant of get_airdrop_parse that reads the balance before it looks at
\* the result of the parse.
get_airdrop_parse_read_first ==
    \E t \in Tasks :
    /\ t.pc = "queued" /\ t.route = "/get_airdrop"
    /\ WorkerFree
    /\ \E res \in BalanceResults :
         LET u == [t EXCEPT !.calls = Append(@, GetBalanceCall(Key(t), res))]
         IN  IF PubkeyFromStr(t.payload.wallet).ok
             THEN Becomes(t, [u EXCEPT !.pc = "initial_balance",
                                       !.steps = Append(@, "validate")], Poll)
             ELSE Becomes(t, InvalidWallet(u), Same)

\* get_airdrop, lines 109-122: parse the wallet.
get_airdrop_parse ==
    \E t \in Tasks :
    /\ t.pc = "queued" /\ t.route = "/get_airdrop"
    /\ WorkerFree
    /\ IF PubkeyFromStr(t.payload.wallet).ok
       THEN Becomes(t, [t EXCEPT !.pc = "initial_balance",
                                 !.steps = Append(@, "validate")], Poll)
       ELSE Becomes(t, InvalidWallet(t), Same)

\* get_airdrop, lines 124-134: the initial balance read.
get_airdrop_initial_balance ==
    \E t \in Tasks :
    /\ t.pc = "initial_balance"
    /\ \E res \in BalanceResults :
         LET u == [t EXCEPT !.steps = Append(@, "initial_balance"),
                            !.calls = Append(@, GetBalanceCall(Key(t), res))]
         IN  IF res.ok
             THEN Becomes(t, [u EXCEPT !.pc = "amount", !.old_balance = res.value], Same)
             ELSE Becomes(t, [u EXCEPT
                      !.pc = "done",
                      !.response = ErrorResponse(500,
                          <<"Failed to get initial balance: ", res.value>>)], Yield)

TooLargeResponse == ErrorResponse(400, <<"Airdrop amount too large (max 2 SOL)">>)

\* Variant of get_airdrop_amount that submits the airdrop before it
\* compares the amount with the ceiling.
get_airdrop_amount_after_submit ==
    \E t \in Tasks :
    /\ t.pc = "amount"
    /\ \E overflow \in {MulOverflows(t.payload.sol, LAMPORTS_PER_SOL)},
          amount \in {WrappingMul(t.payload.sol, LAMPORTS_PER_SOL)} :
         IF overflow_checks /\ overflow
         THEN Becomes(t, [t EXCEPT !.pc = "panicked"], Yield)
         ELSE LET u == [t EXCEPT !.lamports_amount = amount,
                                 !.steps = Append(@, "ceiling"),
                                 !.calls = Append(@,
                                     RequestAirdropCall(Key(t), amount, Ok("sig")))]
              IN  IF AmountTooLarge(amount)
                  THEN Becomes(t, [u EXCEPT !.pc = "done",
                                            !.response = TooLargeResponse], Yield)
                  ELSE Becomes(t, [u EXCEPT !.pc = "sleeping"], Yield)

\* get_airdrop, lines 136-145: the conversion to lamports and the ceiling.
\* payload.sol * LAMPORTS_PER_SOL panics on overflow in a build with
\* overflow checks (the task ends and no response is written) and wraps in
\* a build without.
get_airdrop_amount ==
    \E t \in Tasks :
    /\ t.pc = "amount"
    /\ \E overflow \in {MulOverflows(t.payload.sol, LAMPORTS_PER_SOL)},
          amount \in {WrappingMul(t.payload.sol, LAMPORTS_PER_SOL)} :
         IF overflow_checks /\ overflow
         THEN Becomes(t, [t EXCEPT !.pc = "panicked"], Yield)
         ELSE LET u == [t EXCEPT !.lamports_amount = amount,
                                 !.steps = Append(@, "ceiling")]
              IN  IF AmountTooLarge(amount)
                  THEN Becomes(t, [u EXCEPT !.pc = "done",
                                            !.response = TooLargeResponse], Yield)
                  ELSE Becomes(t, [u EXCEPT !.pc = "request_airdrop"], Same)

Submitted(t, res) ==
    [t EXCEPT !.steps = Append(@, "submit"),
              !.calls = Append(@, RequestAirdropCall(Key(t), t.lamports_amount, res))]

AirdropFailed(u, res) ==
    [u EXCEPT !.pc = "done",
              !.response = ErrorResponse(500, <<"Airdrop failed: ", res.value>>)]

\* Variant of get_airdrop_request that goes on to the wait when the
\* submission failed.
get_airdrop_request_ignore_error ==
    \E t \in Tasks :
    /\ t.pc = "request_airdrop"
    /\ \E res \in AirdropResults :
         Becomes(t, [Submitted(t, res) EXCEPT !.pc = "sleeping"], Yield)

\* Variant of get_airdrop_request that submits a second time.
get_airdrop_request_twice ==
    \E t \in Tasks :
    /\ t.pc = "request_airdrop"
    /\ \E res \in AirdropResults :
         LET u == [Submitted(t, res) EXCEPT !.calls = Append(@,
                       RequestAirdropCall(Key(t), t.lamports_amount, res))]
         IN  IF res.ok
             THEN Becomes(t, [u EXCEPT !.pc = "sleeping"], Yield)
             ELSE Becomes(t, AirdropFailed(u, res), Yield)

\* Variant of get_airdrop_request that does not wait after the submission.
get_airdrop_request_no_wait ==
    \E t \in Tasks :
    /\ t.pc = "request_airdrop"
    /\ \E res \in AirdropResults :
         LET u == Submitted(t, res)
         IN  IF res.ok
             THEN Becomes(t, [u EXCEPT !.pc = "woken"], Yield)
             ELSE Becomes(t, AirdropFailed(u, res), Yield)

\* Variant of get_airdrop_request whose wait keeps the worker thread, as a
\* thread sleep does.
get_airdrop_request_blocking_sleep ==
    \E t \in Tasks :
    /\ t.pc = "request_airdrop"
    /\ \E res \in AirdropResults :
         LET u == Submitted(t, res)
         IN  IF res.ok
             THEN Becomes(t, [u EXCEPT !.pc = "sleeping"], Same)
             ELSE Becomes(t, AirdropFailed(u, res), Yield)

\* get_airdrop, lines 147-165: the submission; on success the signature is
\* printed and the task suspends in sleep(10 s).await, which frees its
\* worker.
get_airdrop_request ==
    \E t \in Tasks :
    /\ t.pc = "request_airdrop"
    /\ \E res \in AirdropResults :
         LET u == Submitted(t, res)
         IN  IF res.ok
             THEN Becomes(t, [u EXCEPT !.pc = "sleeping"], Yield)
             ELSE Becomes(t, AirdropFailed(u, res), Yield)

\* The 10 seconds of line 165 elapse: the task is runnable again.
sleep_elapsed ==
    \E t \in Tasks :
    /\ t.pc = "sleeping"
    /\ Becomes(t, [t EXCEPT !.pc = "woken", !.steps = Append(@, "wait")], Same)

\* get_airdrop, lines 167-184: the second balance read and the response.
get_airdrop_new_balance ==
    \E t \in Tasks :
    /\ t.pc = "woken"
    /\ WorkerFree
    /\ \E res \in BalanceResults :
         Becomes(t, [t EXCEPT
             !.pc = "done",
             !.steps = Append(@, "new_balance"),
             !.calls = Append(@, GetBalanceCall(Key(t), res)),
             !.response =
                 IF res.ok
                 THEN OkResponse([wallet |-> t.payload.wallet,
                                  previous_balance_lamports |-> t.old_balance,
                                  new_balance_lamports |-> res.value])
                 ELSE ErrorResponse(500, <<"Failed to get new balance: ", res.value>>)],
             Same)

\* The steps that need only the runtime and the adapter.
Run ==
    \/ health_check
    \/ get_balance_parse
    \/ get_balance_read
    \/ get_airdrop_parse
    \/ get_airdrop_initial_balance
    \/ get_airdrop_amount
    \/ get_airdrop_request
    \/ get_airdrop_new_balance

Next ==
    \/ Accept
    \/ health_check
    \/ get_balance_parse
    \/ get_balance_read
    \/ get_airdrop_parse
    \/ get_airdrop_initial_balance
    \/ get_airdrop_amount
    \/ get_airdrop_request
    \/ sleep_elapsed
    \/ get_airdrop_new_balance

Spec == Init /\ [][Next]_vars

\* Every adapter call returns, the runtime polls every runnable task, and
\* every settlement wait elapses.
FairSpec == Spec /\ WF_vars(Run) /\ WF_vars(sleep_elapsed)

(* ------------------------------ claims --------------------------------- *)
IsAirdrop(t) == t.route = "/get_airdrop"
HasWallet(t) == t.route \in {"/get_balance", "/get_airdrop"}
ValidWallet(t) == t.payload.wallet \in ValidWallets

IsRead(c) == c.op = "get_balance"
IsSubmit(c) == c.op = "request_airdrop"
Reads(t) == Len(SelectSeq(t.calls, IsRead))
Submits(t) == Len(SelectSeq(t.calls, IsSubmit))
Ops(t) == [i \in 1..Len(t.calls) |-> t.calls[i].op]

AllCallsOk(t) == \A i \in 1..Len(t.calls) : t.calls[i].result.ok
SomeCallFailed(t) == \E i \in 1..Len(t.calls) : ~t.calls[i].result.ok

Contains(seq, x) == \E i \in 1..Len(seq) : seq[i] = x

\* sol > 2 and sol <= 2, on the request's own number.
Two == <<2, 0, 0, 0, 0, 0, 0, 0>>
Three == <<3, 0, 0, 0, 0, 0, 0, 0>>
OverLimit(t) == U64Gt(t.payload.sol, Two)
WithinLimit(t) == ~U64Gt(t.payload.sol, Two)

\* The task has ended: its handler returned or panicked.
Ended(t) == t.pc \in {"done", "panicked"}

\* C1: a get_balance or get_airdrop request whose wallet is not a valid
\* address makes no adapter call at any point, and its response is 400 with
\* an error body.
C1_InvalidWalletNoCalls ==
    \A t \in Tasks :
        (HasWallet(t) /\ ~ValidWallet(t)) =>
            /\ t.calls = <<>>
            /\ t.pc \in {"queued", "done"}
            /\ t.pc = "done" =>
                 /\ t.response.status = 400
                 /\ t.response.error = <<"Invalid wallet address">>

C1_Witness ==
    \E t1 \in Tasks, t2 \in Tasks :
        /\ t1.route = "/get_balance" /\ t2.route = "/get_airdrop"
        /\ ~ValidWallet(t1) /\ ~ValidWallet(t2)
        /\ t1.response.status = 400 /\ t2.response.status = 400

\* C2 (as claimed): a get_airdrop request for more than 2 coin-units never
\* calls the submission operation, on any repetition, and once its handler
\* has reached the amount check and ended, its response is 400.
C2_OverLimitNeverSubmits ==
    \A t \in Tasks :
        (IsAirdrop(t) /\ OverLimit(t)) =>
            /\ Submits(t) = 0
            /\ (Ended(t) /\ t.old_balance # -1) => t.response.status = 400

\* C3 (as claimed): when the 400 'amount too large' response is produced the
\* request has made no adapter call of any kind.
C3_TooLargeNoCalls ==
    \A t \in Tasks : t.response = TooLargeResponse => t.calls = <<>>

\* C3 (amended): when the 400 'amount too large' response is produced the
\* request has made exactly one adapter call, the successful initial balance
\* read, and no submission.
C3_TooLargeNoSubmission ==
    \A t \in Tasks :
        t.response = TooLargeResponse =>
            /\ Submits(t) = 0
            /\ Reads(t) = 1
            /\ Len(t.calls) = 1
            /\ t.calls[1].result.ok

C3_Witness ==
    \E t \in Tasks : t.response = TooLargeResponse /\ t.pc = "done"

\* C4: a get_airdrop request with a valid wallet and sol <= 2 whose adapter
\* calls all succeed never makes more than one submission or more than two
\* balance reads, and ends with status 200 after exactly a balance read, one
\* submission and a second balance read, in this order.
C4_OneSubmissionTwoReads ==
    \A t \in Tasks :
        (IsAirdrop(t) /\ ValidWallet(t) /\ WithinLimit(t) /\ AllCallsOk(t)) =>
            /\ Submits(t) <= 1
            /\ Reads(t) <= 2
            /\ Ended(t) =>
                 /\ t.response.status = 200
                 /\ Ops(t) = <<"get_balance", "request_airdrop", "get_balance">>

C4_Witness ==
    \E t \in Tasks :
        /\ IsAirdrop(t) /\ ValidWallet(t) /\ WithinLimit(t) /\ AllCallsOk(t)
        /\ t.response.status = 200
        /\ Submits(t) = 1 /\ Reads(t) = 2

\* The message and the step of the n-th adapter call of get_airdrop.
StageMessage(n) ==
    CASE n = 1 -> "Failed to get initial balance: "
      [] n = 2 -> "Airdrop failed: "
      [] n = 3 -> "Failed to get new balance: "
StageStep(n) ==
    CASE n = 1 -> "initial_balance"
      [] n = 2 -> "submit"
      [] n = 3 -> "new_balance"

\* C5: in get_airdrop a failed adapter call is the last call and the last
\* step of the request: the response is 500 and names that stage, the call
\* is not repeated, and no later step runs (after a failed submission no
\* wait and no second read, after a failed initial read no submission).
C5_FirstFailureAborts ==
    \A t \in Tasks :
        (IsAirdrop(t) /\ SomeCallFailed(t)) =>
            LET n == Len(t.calls) IN
            /\ n <= 3
            /\ \A i \in 1..(n - 1) : t.calls[i].result.ok
            /\ ~t.calls[n].result.ok
            /\ t.pc = "done"
            /\ t.response.status = 500
            /\ t.response.error = <<StageMessage(n), t.calls[n].result.value>>
            /\ t.steps[Len(t.steps)] = StageStep(n)
            /\ (n = 1) => Submits(t) = 0
            /\ (n = 2) => (Reads(t) = 1 /\ Submits(t) = 1 /\ ~Contains(t.steps, "wait"))

C5_Witness ==
    \E t \in Tasks :
        /\ IsAirdrop(t) /\ Len(t.calls) = 2 /\ ~t.calls[2].result.ok
        /\ t.response.status = 500

\* The request is runnable and waits for a worker thread to poll it.
Ready(t) == t.pc \in {"queued", "woken"}

\* The number of requests that are executing handler code, which a request
\* in its settlement wait is not.
Executing ==
    BagCardinality([t \in {u \in Tasks : u.pc \in {"initial_balance", "amount",
                                                     "request_airdrop", "read_balance"}}
                      |-> CopiesIn(t, tasks)])

Sleeping ==
    BagCardinality([t \in {u \in Tasks : u.pc = "sleeping"} |-> CopiesIn(t, tasks)])

\* C6: however many requests are in their settlement wait, the worker
\* threads are taken only by the requests that are executing handler code,
\* so that a request that is ready to run finds a worker unless every
\* worker is executing another request; accepting a request needs no worker.
C6_WaitBlocksNoOne ==
    /\ idle_workers = NumWorkers - Executing
    /\ \A t \in Tasks :
         (Ready(t) /\ Executing < NumWorkers) => WorkerFree

\* As many requests as there are workers are in their settlement wait, and
\* another request is being executed by a worker.
C6_Witness ==
    /\ Sleeping >= NumWorkers
    /\ Executing > 0

\* sol, as 16 bytes.
Wide(x) == x \o <<0, 0, 0, 0, 0, 0, 0, 0>>

\* C7 (as claimed): on a successful get_airdrop request the submission was
\* issued for exactly sol * LAMPORTS_PER_SOL lamports for the wallet's key,
\* and the response carries the wallet, the value of the first balance read
\* as previous_balance_lamports and the value of the second as
\* new_balance_lamports.
C7_SuccessReportsReads ==
    \A t \in Tasks :
        (IsAirdrop(t) /\ t.response.status = 200) =>
            /\ Len(t.calls) = 3
            /\ t.calls[2].op = "request_airdrop"
            /\ t.calls[2].pubkey = PubkeyFromStr(t.payload.wallet).key
            /\ Wide(t.calls[2].lamports) = FullMul(t.payload.sol, LAMPORTS_PER_SOL)
            /\ t.response.body.wallet = t.payload.wallet
            /\ t.response.body.previous_balance_lamports = t.calls[1].result.value
            /\ t.response.body.new_balance_lamports = t.calls[3].result.value

StepOrder == <<"validate", "initial_balance", "ceiling", "submit", "wait", "new_balance">>

\* C8: the steps of a get_airdrop request are a prefix of validation,
\* initial balance read, ceiling check, submission, settlement wait, second
\* balance read, and a step has run only if every step before it succeeded.
C8_StepsInOrder ==
    \A t \in Tasks :
        IsAirdrop(t) =>
            LET n == Len(t.steps) IN
            /\ n <= Len(StepOrder)
            /\ t.steps = SubSeq(StepOrder, 1, n)
            /\ n >= 2 => ValidWallet(t)
            /\ n >= 3 => (Len(t.calls) >= 1 /\ IsRead(t.calls[1]) /\ t.calls[1].result.ok)
            /\ n >= 4 => ~U64Gt(t.lamports_amount, U64(2000000000))
            /\ n >= 5 => (Len(t.calls) >= 2 /\ IsSubmit(t.calls[2]) /\ t.calls[2].result.ok)
            /\ n >= 6 => (Len(t.calls) = 3 /\ IsRead(t.calls[3]))
            /\ n < 2 => Len(t.calls) = 0
            /\ n < 4 => Submits(t) = 0
            /\ n < 6 => Reads(t) <= 1

C8_Witness ==
    \E t \in Tasks : IsAirdrop(t) /\ t.steps = StepOrder /\ t.response.status = 200

\* C9: with a valid wallet, a request for 2 coin-units or fewer is never
\* answered 'amount too large' and goes from the ceiling check to the
\* submission call; a request for 3 is answered 400 at the ceiling check and
\* never submits; the ceiling is 2 000 000 000 lamports for every request.
C9_CeilingIsStrict ==
    \A t \in Tasks :
        (IsAirdrop(t) /\ ValidWallet(t)) =>
            /\ WithinLimit(t) =>
                 /\ t.response # TooLargeResponse
                 /\ Contains(t.steps, "ceiling") =>
                      (t.pc = "request_airdrop" \/ Submits(t) = 1)
            /\ t.payload.sol = Three =>
                 /\ Submits(t) = 0
                 /\ Contains(t.steps, "ceiling") =>
                      (t.pc = "done" /\ t.response = TooLargeResponse)
            /\ Contains(t.steps, "ceiling") =>
                 (t.response = TooLargeResponse
                    <=> U64Gt(t.lamports_amount, U64(2000000000)))

C9_Witness ==
    \E t1 \in Tasks, t2 \in Tasks :
        /\ IsAirdrop(t1) /\ t1.payload.sol = Two /\ Submits(t1) = 1
        /\ IsAirdrop(t2) /\ t2.payload.sol = Three /\ t2.response = TooLargeResponse

\* C10 (as claimed): every request eventually has its response, a 200, 400
\* or 500, and its handler is at its end.
C10_EveryRequestAnswered ==
    <>[](\A t \in Tasks : t.pc = "done" /\ t.response.status \in {200, 400, 500})

=============================================================================
